---- MODULE Spec2Model ----
(***************************************************************************)
(* Model of duplicate_encode.py: eight variants of the "duplicate encoder" *)
(* (one marker per input character: "(" when the character occurs once in  *)
(* the whole input, ")" otherwise) and the module-level benchmark harness  *)
(* that times the variants and asserts that their outputs are equal.       *)
(*                                                                         *)
(* A Python str is a sequence of one-character strings.  A dict is a       *)
(* function whose DOMAIN is the set of keys.  Every loop iteration of the  *)
(* source is one step of the model.                                        *)
(***************************************************************************)
EXTENDS Integers, Sequences, FiniteSets, TLC

VARIABLES
    driver,     \* "caller": a client calls the variants; "harness": lines 96-173 run
    stage,      \* position of the driver
    todo,       \* variants the driver has still to time / call, in order
    text,       \* the input string (word / text / input_word)
    timed,      \* variant -> number of timed runs (timeit, lines 132-139)
    fn,         \* the variant being executed, or NoFn
    pc,         \* position inside the executing variant
    i,          \* 1-based index of the next character of the running loop
    counter,    \* the counting table of the executing variant
    writes,     \* character -> number of stores into the counting table so far
    new_word,   \* the output built so far
    raised,     \* TRUE once a KeyError has been raised
    results,    \* variant -> returned string, or None
    compared,   \* operands of the executed equality assertion (lines 170-173)
    asserted    \* "pending", "passed" or "failed" (AssertionError)

vars == <<driver, stage, todo, text, timed, fn, pc, i, counter, writes,
          new_word, raised, results, compared, asserted>>

----
\* Bounds of the model.

\* Longest input a caller passes.
MaxLen == 4
\* Number of distinct characters inputs are drawn from.
NumChars == 3
\* Longest random chunk the harness generates (stands for input_word_size
\* characters of line 114; the chunk is then repeated input_word_num times).
MaxChunk == 2

Alphabet == <<"a", "b", "c", "d", "e", "f", "g", "h">>
Chars == {Alphabet[k] : k \in 1..NumChars}

SeqsUpTo(n) == UNION {[1..m -> Chars] : m \in 0..n}
Texts == SeqsUpTo(MaxLen)
Chunks == SeqsUpTo(MaxChunk) \ {<<>>}

----
\* The eight variants, in definition order.

Variants == <<"oneline_list", "oneline_gen", "oneline_vars", "bash",
              "bash_single_update",
              "bash_single_update_str_join_instead_of_concat",
              "bash_improved", "bash_improved_single_update">>

Range(s) == {s[k] : k \in 1..Len(s)}
VariantSet == Range(Variants)

\* Variants with no counting table: they re-scan the word with str.count.
RescanVariants == {"oneline_list", "oneline_gen"}
\* Variants whose table is a plain dict indexed with [] in the output pass.
PlainDictVariants == {"bash", "bash_single_update",
                      "bash_single_update_str_join_instead_of_concat"}
\* Variants whose table is a defaultdict(int).
DefaultDictVariants == {"bash_improved", "bash_improved_single_update"}
\* Variants whose counting loop stores at most twice per character.
SingleUpdateVariants == {"bash_single_update",
                         "bash_single_update_str_join_instead_of_concat",
                         "bash_improved_single_update"}

NoFn == "none"
None == <<"None">>
KeyError == <<"KeyError">>

----
\* Python building blocks.

\* {} / defaultdict(int) / Counter(): no keys.
EmptyDict == [k \in {} |-> 0]

\* d[k] = v
setitem(d, k, v) == [x \in (DOMAIN d) \cup {k} |-> IF x = k THEN v ELSE d[x]]

\* A loop body yields the sequence of stores <<key, value>> it performs.
RECURSIVE ApplyStores(_, _)
ApplyStores(d, stores) ==
    IF stores = <<>> THEN d
    ELSE ApplyStores(setitem(d, Head(stores)[1], Head(stores)[2]), Tail(stores))

RECURSIVE CountStores(_, _)
CountStores(w, stores) ==
    IF stores = <<>> THEN w
    ELSE CountStores([w EXCEPT ![Head(stores)[1]] = @ + 1], Tail(stores))

\* str.count(c): number of occurrences of c, scanning the word left to right.
RECURSIVE str_count(_, _)
str_count(word, c) ==
    IF word = <<>> THEN 0
    ELSE (IF Head(word) = c THEN 1 ELSE 0) + str_count(Tail(word), c)

\* Counter(text): one store per element, each adding one to the element's count.
RECURSIVE Counter_stores(_, _)
Counter_stores(d, word) ==
    IF word = <<>> THEN <<>>
    ELSE LET c == Head(word)
             v == (IF c \in DOMAIN d THEN d[c] ELSE 0) + 1
         IN  <<<<c, v>>>> \o Counter_stores(setitem(d, c, v), Tail(word))

\* Counter.__getitem__ / __missing__: a missing key reads as 0, nothing stored.
Counter_getitem(d, k) == IF k \in DOMAIN d THEN d[k] ELSE 0

\* defaultdict(int).__missing__: reading a missing key stores 0 under it.
defaultdict_missing(d, k) == IF k \in DOMAIN d THEN <<>> ELSE <<<<k, 0>>>>

\* str() / "": the empty string an output starts from.
\* Variation: the output starts from a stray marker.
new_str_nonempty == <<")">>
new_str == <<>>

----
\* The variants: one operator per loop body.  A counting body yields the
\* stores it performs on the table; an output body yields the string it emits.

\* Variation: the test is "occurs at all" instead of "occurs once".
duplicate_encode_oneline_list_contains(word, c) ==
    IF str_count(word, c) >= 1 THEN <<"(">> ELSE <<")">>

\* "(" if word.count(c) == 1 else ")"   (list comprehension)
duplicate_encode_oneline_list(word, c) ==
    IF str_count(word, c) = 1 THEN <<"(">> ELSE <<")">>

\* Variation: nothing is emitted for a repeated character.
duplicate_encode_oneline_gen_drop(word, c) ==
    IF str_count(word, c) = 1 THEN <<"(">> ELSE <<>>

\* "(" if word.count(c) == 1 else ")"   (generator expression)
duplicate_encode_oneline_gen(word, c) ==
    IF str_count(word, c) = 1 THEN <<"(">> ELSE <<")">>

\* ')' if counts[t]-1 else '('
duplicate_encode_oneline_vars(counts, t) ==
    IF Counter_getitem(counts, t) - 1 # 0 THEN <<")">> ELSE <<"(">>

\* Variation: counter.get(char, 1) + 1.
duplicate_encode_bash_count_from_one(d, char) ==
    <<<<char, (IF char \in DOMAIN d THEN d[char] ELSE 1) + 1>>>>

\* counter[char] = counter.get(char, 0) + 1
duplicate_encode_bash_count(d, char) ==
    <<<<char, (IF char \in DOMAIN d THEN d[char] ELSE 0) + 1>>>>

\* new_word += '(' if counter[char] == 1 else ')'
duplicate_encode_bash(d, char) ==
    IF char \notin DOMAIN d THEN KeyError
    ELSE IF d[char] = 1 THEN <<"(">> ELSE <<")">>

\* Variation: the first occurrence of a character is not stored.
duplicate_encode_bash_single_update_count_no_insert(d, char) ==
    IF char \notin DOMAIN d THEN <<>>
    ELSE IF d[char] = 1 THEN <<<<char, 2>>>>
    ELSE <<>>

\* if char not in counter: counter[char] = 1 / elif counter[char] == 1: counter[char] = 2
duplicate_encode_bash_single_update_count(d, char) ==
    IF char \notin DOMAIN d THEN <<<<char, 1>>>>
    ELSE IF d[char] = 1 THEN <<<<char, 2>>>>
    ELSE <<>>

\* new_word += '(' if counter[char] == 1 else ')'
duplicate_encode_bash_single_update(d, char) ==
    IF char \notin DOMAIN d THEN KeyError
    ELSE IF d[char] = 1 THEN <<"(">> ELSE <<")">>

\* Variation: the elif branch is missing, a second occurrence stores nothing.
duplicate_encode_bash_single_update_str_join_instead_of_concat_count_no_elif(d, char) ==
    IF char \notin DOMAIN d THEN <<<<char, 1>>>>
    ELSE <<>>

\* the same counting loop, lines 52-56
duplicate_encode_bash_single_update_str_join_instead_of_concat_count(d, char) ==
    IF char \notin DOMAIN d THEN <<<<char, 1>>>>
    ELSE IF d[char] = 1 THEN <<<<char, 2>>>>
    ELSE <<>>

\* '(' if counter[char] == 1 else ')'   (joined list comprehension)
duplicate_encode_bash_single_update_str_join_instead_of_concat(d, char) ==
    IF char \notin DOMAIN d THEN KeyError
    ELSE IF d[char] = 1 THEN <<"(">> ELSE <<")">>

\* counter[char] += 1 on a defaultdict(int): a missing key is first stored
\* as 0 by __missing__, then the incremented value is stored.
duplicate_encode_bash_improved_count(d, char) ==
    LET miss == defaultdict_missing(d, char)
        d1   == ApplyStores(d, miss)
    IN  miss \o <<<<char, d1[char] + 1>>>>

\* Variation: ')' if counter[char] else '('.
duplicate_encode_bash_improved_no_minus(d, char) ==
    IF d[char] # 0 THEN <<")">> ELSE <<"(">>

\* ')' if counter[char]-1 else '('   (d is the table after the lookup)
duplicate_encode_bash_improved(d, char) ==
    IF d[char] - 1 # 0 THEN <<")">> ELSE <<"(">>

\* Variation: the "if counter.get(char): continue" test is missing, every
\* later occurrence stores 1 again.
duplicate_encode_bash_improved_single_update_count_always(d, char) ==
    IF char \notin DOMAIN d THEN defaultdict_missing(d, char)
    ELSE <<<<char, 1>>>>

\* if char not in counter: counter[char]; continue
\* if counter.get(char): continue
\* counter[char] = 1
duplicate_encode_bash_improved_single_update_count(d, char) ==
    IF char \notin DOMAIN d THEN defaultdict_missing(d, char)
    ELSE IF d[char] # 0 THEN <<>>
    ELSE <<<<char, 1>>>>

\* Variation: ')' if counter[char]-1 else '(', as in bash_improved.
duplicate_encode_bash_improved_single_update_minus(d, char) ==
    IF d[char] - 1 # 0 THEN <<")">> ELSE <<"(">>

\* ')' if counter[char] else '('   (d is the table after the lookup)
duplicate_encode_bash_improved_single_update(d, char) ==
    IF d[char] # 0 THEN <<")">> ELSE <<"(">>

\* The stores of one iteration of variant f's counting loop.
CountBody(f, d, char) ==
    CASE f = "bash" -> duplicate_encode_bash_count(d, char)
      [] f = "bash_single_update" ->
             duplicate_encode_bash_single_update_count(d, char)
      [] f = "bash_single_update_str_join_instead_of_concat" ->
             duplicate_encode_bash_single_update_str_join_instead_of_concat_count(d, char)
      [] f = "bash_improved" -> duplicate_encode_bash_improved_count(d, char)
      [] f = "bash_improved_single_update" ->
             duplicate_encode_bash_improved_single_update_count(d, char)

\* The stores the output pass's table lookup performs (defaultdict only).
LookupStores(f, d, char) ==
    IF f \in DefaultDictVariants THEN defaultdict_missing(d, char) ELSE <<>>

\* The string one iteration of variant f's output pass emits, or KeyError.
OutputBody(f, word, d, char) ==
    CASE f = "oneline_list" -> duplicate_encode_oneline_list(word, char)
      [] f = "oneline_gen" -> duplicate_encode_oneline_gen(word, char)
      [] f = "oneline_vars" -> duplicate_encode_oneline_vars(d, char)
      [] f = "bash" -> duplicate_encode_bash(d, char)
      [] f = "bash_single_update" -> duplicate_encode_bash_single_update(d, char)
      [] f = "bash_single_update_str_join_instead_of_concat" ->
             duplicate_encode_bash_single_update_str_join_instead_of_concat(d, char)
      [] f = "bash_improved" -> duplicate_encode_bash_improved(d, char)
      [] f = "bash_improved_single_update" ->
             duplicate_encode_bash_improved_single_update(d, char)

----
\* The benchmark harness's constants (lines 96-102).

number_of_test_runs == 10
input_word_size == 1000000
input_word_num == 10
chars_per_test == number_of_test_runs * input_word_size * input_word_num
\* Variation: the comparison is reversed.
skip_slow_algos_reversed == chars_per_test < 1000000
skip_slow_algos == chars_per_test > 1000000

\* input_word_chunk * input_word_num
RECURSIVE str_mul(_, _)
str_mul(chunk, n) == IF n <= 0 THEN <<>> ELSE chunk \o str_mul(chunk, n - 1)

\* The timeit calls of lines 130-139, in order.
TimingOrder ==
    (IF ~skip_slow_algos THEN <<"oneline_list", "oneline_gen">> ELSE <<>>) \o
    <<"bash", "bash_single_update_str_join_instead_of_concat",
      "bash_single_update", "bash_improved", "bash_improved_single_update",
      "oneline_vars">>

\* The calls of lines 159-168 that compute the outputs to compare, in order.
CorrectnessOrder ==
    (IF ~skip_slow_algos THEN <<"oneline_list", "oneline_gen">> ELSE <<>>) \o
    <<"bash", "bash_single_update_str_join_instead_of_concat",
      "bash_single_update", "bash_improved", "bash_improved_single_update",
      "oneline_vars">>

\* The operands of the chained == of line 171 (skip) or line 173, in order.
AssertOperands ==
    IF skip_slow_algos
    THEN <<"bash", "bash_improved", "oneline_vars", "bash_single_update",
           "bash_improved_single_update",
           "bash_single_update_str_join_instead_of_concat">>
    ELSE <<"oneline_list", "oneline_gen", "bash", "bash_improved",
           "oneline_vars", "bash_single_update", "bash_improved_single_update",
           "bash_single_update_str_join_instead_of_concat">>

\* a == b == c ...: every adjacent pair of operands is equal.
ChainedEq(ops, res) ==
    \A k \in 1..(Len(ops) - 1) : res[ops[k]] = res[ops[k + 1]]

----
\* The state machine.

ZeroWrites == [c \in Chars |-> 0]

Init ==
    /\ driver \in {"caller", "harness"}
    /\ IF driver = "caller"
       THEN /\ stage = "calls"
            /\ todo = Variants
            /\ text \in Texts
       ELSE /\ stage = "generate"
            /\ todo = <<>>
            /\ text = <<>>
    /\ timed = [f \in VariantSet |-> 0]
    /\ fn = NoFn
    /\ pc = "idle"
    /\ i = 1
    /\ counter = EmptyDict
    /\ writes = ZeroWrites
    /\ new_word = new_str
    /\ raised = FALSE
    /\ results = [f \in VariantSet |-> None]
    /\ compared = <<>>
    /\ asserted = "pending"

\* Lines 111-115: input_word = input_word_chunk * input_word_num.
Generate ==
    /\ driver = "harness"
    /\ stage = "generate"
    /\ \E chunk \in Chunks : text' = str_mul(chunk, input_word_num)
    /\ stage' = "timing"
    /\ todo' = TimingOrder
    /\ UNCHANGED <<driver, timed, fn, pc, i, counter, writes, new_word,
                   raised, results, compared, asserted>>

\* Lines 130-139: timeit(<variant>, number=number_of_test_runs); the value
\* each timed call returns is discarded.
Time ==
    /\ stage = "timing"
    /\ todo # <<>>
    /\ timed' = [timed EXCEPT ![Head(todo)] = number_of_test_runs]
    /\ IF Tail(todo) = <<>>
       THEN stage' = "correctness" /\ todo' = CorrectnessOrder
       ELSE stage' = stage /\ todo' = Tail(todo)
    /\ UNCHANGED <<driver, text, fn, pc, i, counter, writes, new_word,
                   raised, results, compared, asserted>>

\* The driver calls the next variant on text: the variant's locals are fresh.
Call ==
    /\ stage \in {"calls", "correctness"}
    /\ pc = "idle"
    /\ todo # <<>>
    /\ fn' = Head(todo)
    /\ todo' = Tail(todo)
    /\ counter' = EmptyDict
    /\ writes' = ZeroWrites
    /\ new_word' = new_str
    /\ i' = 1
    /\ pc' = IF Head(todo) \in RescanVariants THEN "output" ELSE "count"
    /\ UNCHANGED <<driver, stage, text, timed, raised, results, compared,
                   asserted>>

\* Line 14: counts = Counter(text).
BuildCounter ==
    /\ pc = "count"
    /\ fn = "oneline_vars"
    /\ LET stores == Counter_stores(EmptyDict, text)
       IN  /\ counter' = ApplyStores(counter, stores)
           /\ writes' = CountStores(writes, stores)
    /\ pc' = "output"
    /\ i' = 1
    /\ UNCHANGED <<driver, stage, todo, text, timed, fn, new_word, raised,
                   results, compared, asserted>>

\* One iteration of the counting loop (for char in word / text).
CountPass ==
    /\ pc = "count"
    /\ fn # "oneline_vars"
    /\ i <= Len(text)
    /\ LET stores == CountBody(fn, counter, text[i])
       IN  /\ counter' = ApplyStores(counter, stores)
           /\ writes' = CountStores(writes, stores)
    /\ i' = i + 1
    /\ UNCHANGED <<driver, stage, todo, text, timed, fn, pc, new_word,
                   raised, results, compared, asserted>>

\* The counting loop is exhausted: the output pass starts.
CountDone ==
    /\ pc = "count"
    /\ fn # "oneline_vars"
    /\ i > Len(text)
    /\ pc' = "output"
    /\ i' = 1
    /\ UNCHANGED <<driver, stage, todo, text, timed, fn, counter, writes,
                   new_word, raised, results, compared, asserted>>

\* One iteration of the output pass: one lookup, one emitted string.
OutputPass ==
    /\ pc = "output"
    /\ i <= Len(text)
    /\ LET stores == LookupStores(fn, counter, text[i])
           d1     == ApplyStores(counter, stores)
           m      == OutputBody(fn, text, d1, text[i])
       IN  IF m = KeyError
           THEN /\ raised' = TRUE
                /\ pc' = "raised"
                /\ UNCHANGED <<counter, writes, new_word, i>>
           ELSE /\ new_word' = new_word \o m
                /\ counter' = d1
                /\ writes' = CountStores(writes, stores)
                /\ i' = i + 1
                /\ UNCHANGED <<raised, pc>>
    /\ UNCHANGED <<driver, stage, todo, text, timed, fn, results, compared,
                   asserted>>

\* return new_word / return "".join(...): the locals are discarded.
Return ==
    /\ pc = "output"
    /\ i > Len(text)
    /\ results' = [results EXCEPT ![fn] = new_word]
    /\ pc' = "idle"
    /\ fn' = NoFn
    /\ counter' = EmptyDict
    /\ writes' = ZeroWrites
    /\ new_word' = new_str
    /\ i' = 1
    /\ stage' = IF todo # <<>> THEN stage
                ELSE IF driver = "harness" THEN "assert" ELSE "done"
    /\ UNCHANGED <<driver, todo, text, timed, raised, compared, asserted>>

\* Lines 170-173: the chained equality assertion.
AssertEqual ==
    /\ stage = "assert"
    /\ compared' = AssertOperands
    /\ asserted' = IF ChainedEq(AssertOperands, results)
                   THEN "passed" ELSE "failed"
    /\ stage' = "done"
    /\ UNCHANGED <<driver, todo, text, timed, fn, pc, i, counter, writes,
                   new_word, raised, results>>

Next ==
    \/ Generate
    \/ Time
    \/ Call
    \/ BuildCounter
    \/ CountPass
    \/ CountDone
    \/ OutputPass
    \/ Return
    \/ AssertEqual

Spec == Init /\ [][Next]_vars

----
\* Vocabulary of the properties.

\* Number of positions of t that hold c.
Occurrences(t, c) == Cardinality({j \in 1..Len(t) : t[j] = c})

Min(a, b) == IF a <= b THEN a ELSE b

\* n copies of marker m.
Repeat(m, n) == [j \in 1..n |-> m]

\* t is a non-empty chunk repeated at least twice.
IsRepeatedChunk(t) ==
    \E n \in 1..Len(t) :
        /\ Len(t) % n = 0
        /\ Len(t) \div n >= 2
        /\ \A j \in 1..Len(t) : t[j] = t[((j - 1) % n) + 1]

\* The part of the input the running counting loop has consumed.
Prefix == IF pc = "count" THEN SubSeq(text, 1, i - 1) ELSE text

Returned == {f \in VariantSet : results[f] # None}

\* A caller has run all eight variants on text.
AllReturned == driver = "caller" /\ stage = "done" /\ Returned = VariantSet

----
\* C1: in every returned result, position j holds "(" if and only if
\* text[j] occurs exactly once in the whole text, and ")" otherwise.
C1_MarkerIffOnce ==
    \A f \in Returned :
        /\ Len(results[f]) = Len(text)
        /\ \A j \in 1..Len(text) :
              results[f][j] = IF Occurrences(text, text[j]) = 1 THEN "(" ELSE ")"

C1_Witness ==
    /\ AllReturned
    /\ \E j, k \in 1..Len(text) :
          Occurrences(text, text[j]) = 1 /\ Occurrences(text, text[k]) >= 2

\* C2: the results of any two variants on the same input are equal.
C2_VariantsAgree ==
    \A f, g \in Returned : results[f] = results[g]

C2_Witness ==
    /\ AllReturned
    /\ \E j, k \in 1..Len(text) :
          Occurrences(text, text[j]) = 1 /\ Occurrences(text, text[k]) >= 3

\* C3: when text is a non-empty chunk repeated at least twice, every
\* returned result is ")" repeated len(text) times.
C3_RepeatedChunkAllDuplicate ==
    IsRepeatedChunk(text) =>
        \A f \in Returned : results[f] = Repeat(")", Len(text))

C3_Witness ==
    /\ AllReturned
    /\ IsRepeatedChunk(text)
    /\ Cardinality(Range(text)) >= 2

\* C4: every returned result is as long as the input, and the output pass
\* has emitted exactly one marker for each position it has passed.
C4_SameLength ==
    /\ \A f \in Returned : Len(results[f]) = Len(text)
    /\ pc = "output" => Len(new_word) = i - 1

C4_Witness ==
    /\ AllReturned
    /\ Len(text) = MaxLen

\* C5: on the empty input no loop iterates: the counting table stays empty,
\* nothing is emitted and every returned result is the empty string.
C5_EmptyInput ==
    text = <<>> =>
        /\ counter = EmptyDict
        /\ new_word = <<>>
        /\ i = 1
        /\ \A f \in Returned : results[f] = <<>>

C5_Witness ==
    /\ AllReturned
    /\ text = <<>>

\* C6: when no character of text occurs twice, every returned result is
\* "(" repeated len(text) times.
C6_DistinctAllUnique ==
    (\A j \in 1..Len(text) : Occurrences(text, text[j]) = 1) =>
        \A f \in Returned : results[f] = Repeat("(", Len(text))

C6_Witness ==
    /\ AllReturned
    /\ Len(text) >= 3
    /\ \A j \in 1..Len(text) : Occurrences(text, text[j]) = 1

\* C7: on "abca" every variant returns ")(()": both a's are marked
\* duplicate, b and c are marked unique.
C7_Abca ==
    text = <<"a", "b", "c", "a">> =>
        \A f \in Returned : results[f] = <<")", "(", "(", ")">>

C7_Witness ==
    /\ AllReturned
    /\ text = <<"a", "b", "c", "a">>

\* C8: no KeyError is ever raised, and when a plain-dict variant is in its
\* output pass every character of the input is a key of its counting table.
C8_NoFailure ==
    /\ raised = FALSE
    /\ pc # "raised"
    /\ (pc = "output" /\ fn \in PlainDictVariants) =>
           \A j \in 1..Len(text) : text[j] \in DOMAIN counter

C8_Witness ==
    /\ pc = "output"
    /\ fn \in PlainDictVariants
    /\ i > Len(text)
    /\ Cardinality(Range(text)) >= 2

\* C9 (as claimed): once the harness has finished, every variant of the
\* module has been timed and is an operand of the equality assertion.
C9_AllVariantsCovered ==
    (driver = "harness" /\ stage = "done") =>
        /\ \A f \in VariantSet : timed[f] = number_of_test_runs
        /\ Range(compared) = VariantSet

\* C9 (amended): with the configured constants skip_slow_algos holds, so
\* once the harness has finished exactly the six table-based variants have
\* been timed number_of_test_runs times and compared, the two re-scanning
\* variants have neither been timed nor called, and the assertion passed.
C9_TableVariantsCovered ==
    (driver = "harness" /\ stage = "done") =>
        /\ \A f \in VariantSet \ RescanVariants : timed[f] = number_of_test_runs
        /\ \A f \in RescanVariants : timed[f] = 0 /\ results[f] = None
        /\ Range(compared) = VariantSet \ RescanVariants
        /\ Returned = VariantSet \ RescanVariants
        /\ asserted = "passed"

C9_Witness ==
    /\ driver = "harness"
    /\ stage = "done"
    /\ Cardinality(Range(text)) >= 2

\* C10: in a single-update variant, after any consumed prefix p the keys
\* of the table are the characters of p, the value of c is
\* min(occurrences of c in p, 2) (minus 1 in bash_improved_single_update),
\* and c has been stored min(occurrences of c in p, 2) times: a value that
\* has reached its maximum is not written again.
C10_SaturatingFlag ==
    (fn \in SingleUpdateVariants /\ pc \in {"count", "output"}) =>
        /\ DOMAIN counter = Range(Prefix)
        /\ \A c \in DOMAIN counter :
              counter[c] = Min(Occurrences(Prefix, c), 2)
                           - (IF fn = "bash_improved_single_update" THEN 1 ELSE 0)
        /\ \A c \in Chars : writes[c] = Min(Occurrences(Prefix, c), 2)

C10_Witness ==
    /\ fn = "bash_improved_single_update"
    /\ pc = "count"
    /\ \E c \in Chars : Occurrences(Prefix, c) >= 3
    /\ \E c \in Chars : Occurrences(Prefix, c) = 1

====
